---------------------------- MODULE Spec2Model ----------------------------
(* A model of app.py, the Flask backend of the CryptoBit price tracker:     *)
(* the background thread update_data, the indicator functions rsi and       *)
(* predict_signal, the remote calls get_prices and get_fear_greed, and the  *)
(* /api/data handler.                                                       *)
EXTENDS Integers, Sequences, FiniteSets, TLC

VARIABLES
    data,         \* data[coin]: the per-coin histories (app.py:33-36)
    latest_data,  \* the dict served by /api/data (app.py:38), a function on its keys
    pc,           \* position of the update_data thread
    idx,          \* position of `for coin in COINS` (1-based index into COINS)
    prices,       \* update_data local: prices map of this iteration
    changes,      \* update_data local
    volumes,      \* update_data local
    fg,           \* update_data local: the reading of line 163
    dashboard,    \* update_data local
    charts,       \* update_data local
    response,     \* the body of the last /api/data response
    iter,         \* history: number of the running iteration of `while True`
    wrote,        \* history: wrote[k] = iteration that last assigned latest_data[k]
    rwrote,       \* history: the value of `wrote` when `response` was taken
    appended,     \* history: appended[coin][h] = every value ever appended to history h
    data0,        \* history: `data` when the running iteration began
    fgUsed,       \* history: readings predict_signal took (line 144) in this iteration
    fgReply,      \* history: the answer of the fear/greed source to line 163's request
    score_in,     \* input of the classification check
    signal_out,   \* its result
    rsi_prices,   \* inputs of the rsi check
    rsi_period,
    rsi_out       \* its result

vars == <<data, latest_data, pc, idx, prices, changes, volumes, fg, dashboard,
          charts, response, iter, wrote, rwrote, appended, data0, fgUsed, fgReply,
          score_in, signal_out, rsi_prices, rsi_period, rsi_out>>

progVars == <<data, latest_data, pc, idx, prices, changes, volumes, fg, dashboard,
              charts, response, iter, wrote, rwrote, appended, data0, fgUsed,
              fgReply>>

pureVars == <<score_in, signal_out, rsi_prices, rsi_period, rsi_out>>

--------------------------------------------------------------------------
(* Bounds of the model.                                                     *)

\* iterations of the update loop explored with the HTTP reader interleaved
MaxIter == 3
\* samples fed to one coin when the sampling block is iterated on its own
MaxSamples == 606
\* inputs of the rsi check: length of the price list, its values, the period
MaxLen == 4
MaxPrice == 3
MaxPeriod == 2

--------------------------------------------------------------------------
(* Configuration (app.py:20-36).                                            *)

\* COINS, in the dict's insertion order, which `for coin in COINS` follows
COINS == <<"BTC", "ETH", "SOL", "TON", "BNB">>

CoinSet == {COINS[i] : i \in 1..Len(COINS)}

\* the caps of the four price histories
Cap1m == 500
Cap5m == 200
Cap15m == 100
Cap1h == 50

\* the resampling moduli
Every5m == 5
Every15m == 15
Every1h == 60

\* predict_signal answers "Collecting data..." below this many 1m samples
BootstrapLen == 60

\* the default of rsi's `period`
RsiPeriod == 14

\* the value get_fear_greed returns when the request fails
FgDefault == 50

\* the value of prices.get(coin) when the coin has no price
None == -1

\* datetime.datetime.now().isoformat(): every timestamp is one token
IsoNow == "ts"

CoinData0 ==
    [prices_1m |-> <<>>, times_1m |-> <<>>, prices_5m |-> <<>>, times_5m |-> <<>>,
     prices_15m |-> <<>>, times_15m |-> <<>>, prices_1h |-> <<>>, times_1h |-> <<>>,
     volumes_1m |-> <<>>, last_signal |-> "", score |-> 0]

Hist == {"prices_1m", "prices_5m", "prices_15m", "prices_1h"}

--------------------------------------------------------------------------
(* Exact rational arithmetic, <<numerator, denominator>> with a positive    *)
(* denominator, for the float computations of rsi.                          *)

Rat(n) == <<n, 1>>

RatAdd(a, b) == <<a[1] * b[2] + b[1] * a[2], a[2] * b[2]>>

RatSub(a, b) == <<a[1] * b[2] - b[1] * a[2], a[2] * b[2]>>

\* a / b for b > 0
RatDiv(a, b) == <<a[1] * b[2], a[2] * b[1]>>

RatEq(a, b) == a[1] * b[2] = b[1] * a[2]

RatLt(a, b) == a[1] * b[2] < b[1] * a[2]

RECURSIVE SumSeq(_)
SumSeq(s) == IF s = <<>> THEN 0 ELSE Head(s) + SumSeq(Tail(s))

\* s[-n:] for 1 <= n
LastN(s, n) == IF Len(s) <= n THEN s ELSE SubSeq(s, Len(s) - n + 1, Len(s))

\* np.diff
Diff(s) == [i \in 1..(Len(s) - 1) |-> s[i + 1] - s[i]]

\* a[a > 0]
Positive(s) == SelectSeq(s, LAMBDA x : x > 0)

\* np.mean of a non-empty integer array
Mean(s) == <<SumSeq(s), Len(s)>>

--------------------------------------------------------------------------
(* rsi (app.py:68-78).                                                      *)

\* the loss used when the window holds no loss (line 75): 0.001
NoLoss == <<1, 1000>>

\* lines 73-78, on gains = deltas[-period:]
RsiOf(gains) ==
    LET losses == [i \in 1..Len(gains) |-> 0 - gains[i]]
        gain   == IF Positive(gains) # <<>> THEN Mean(Positive(gains)) ELSE Rat(0)
        loss   == IF Positive(losses) # <<>> THEN Mean(Positive(losses)) ELSE NoLoss
    IN  IF loss[1] = 0 THEN Rat(100)
        ELSE LET rs == RatDiv(gain, loss)
             IN  RatSub(Rat(100), RatDiv(Rat(100), RatAdd(Rat(1), rs)))

rsi(ps, period) ==
    IF Len(ps) < period + 1 THEN Rat(50)
    ELSE RsiOf(LastN(Diff(ps), period))


--------------------------------------------------------------------------
(* predict_signal (app.py:84-158).  A signal is the returned tuple          *)
(* (msg, prob, color_class, reasons).                                       *)

Signal(msg, prob, cls, reasons) ==
    [msg |-> msg, prob |-> prob, color_class |-> cls, reasons |-> reasons]

\* line 95
Bootstrap == Signal("Collecting data...", 0, "text-warning", <<>>)

\* mutant of Bootstrapping: the 60th sample still bootstraps
BootstrappingLate(coin_data) == Len(coin_data.prices_1m) <= BootstrapLen

\* line 94
Bootstrapping(coin_data) == Len(coin_data.prices_1m) < BootstrapLen

Abs(x) == IF x < 0 THEN 0 - x ELSE x

Min(a, b) == IF a < b THEN a ELSE b

\* mutant of Classify: Bullish starts above 35 and the probability is not capped
ClassifyOff(score, reasons) ==
    LET prob == Abs(score)
    IN  IF score >= 65 THEN Signal("STRONG BUY", prob, "text-success", reasons)
        ELSE IF score > 35 THEN Signal("Bullish", prob, "text-info", reasons)
        ELSE IF score <= -65 THEN Signal("STRONG SELL", prob, "text-danger", reasons)
        ELSE IF score <= -35 THEN Signal("Bearish", prob, "text-purple", reasons)
        ELSE Signal("Neutral", 25, "text-warning", reasons)

\* lines 148-158
Classify(score, reasons) ==
    LET prob == Min(99, Abs(score))
    IN  IF score >= 65 THEN Signal("STRONG BUY", prob, "text-success", reasons)
        ELSE IF score >= 35 THEN Signal("Bullish", prob, "text-info", reasons)
        ELSE IF score <= -65 THEN Signal("STRONG SELL", prob, "text-danger", reasons)
        ELSE IF score <= -35 THEN Signal("Bearish", prob, "text-purple", reasons)
        ELSE Signal("Neutral", 25, "text-warning", reasons)

Rule(on, pts, why) == [on |-> on, pts |-> pts, why |-> why]

\* s[-n], the n-th element from the end
FromEnd(s, n) == s[Len(s) - n + 1]

\* lines 97-108: the RSI rules
RsiRulesOn(coin_data, rsi_1m) ==
    LET rsi_5m  == IF Len(coin_data.prices_5m) > 14
                   THEN rsi(coin_data.prices_5m, RsiPeriod) ELSE rsi_1m
        rsi_15m == IF Len(coin_data.prices_15m) > 14
                   THEN rsi(coin_data.prices_15m, RsiPeriod) ELSE rsi_1m
        rsi_1h  == IF Len(coin_data.prices_1h) > 14
                   THEN rsi(coin_data.prices_1h, RsiPeriod) ELSE rsi_1m
    IN  << Rule(RatLt(rsi_1m, Rat(27)), 20, "1m RSI Oversold"),
           Rule(RatLt(Rat(73), rsi_1m), -18, "1m RSI Overbought"),
           Rule(RatLt(rsi_5m, Rat(30)), 15, "5m RSI Support"),
           Rule(RatLt(rsi_15m, Rat(35)), 12, "15m RSI Bullish"),
           Rule(RatLt(rsi_1h, Rat(40)), 10, "1h RSI Strong Buy Zone"),
           Rule(RatLt(Rat(70), rsi_1h), -15, "1h RSI Overbought") >>

RsiRules(coin_data) == RsiRulesOn(coin_data, rsi(coin_data.prices_1m, RsiPeriod))

\* lines 110-120: the EMA rules.  ema (lines 80-82) is pandas' ewm recursion
\* in IEEE doubles over up to 500 samples; the model takes the outcome of the
\* two comparisons as inputs: golden is ema12_1m > ema26_1m, bull is
\* ema12_15m > ema26_15m, which is the same comparison until prices_15m
\* holds more than 26 entries (lines 114-115).
EmaRules(coin_data, golden, bull) ==
    LET bull_15m == IF Len(coin_data.prices_15m) > 26 THEN bull ELSE golden
    IN  << Rule(golden, 18, "1m Golden Cross"),
           Rule(~golden, -18, "1m Death Cross"),
           Rule(bull_15m, 14, "15m Bull Trend") >>

\* lines 122-131: momentum; (a / b - 1) * 100 compared exactly.  Prices are
\* positive in every answer the model draws, so the divisions are defined.
MomentumRules(coin_data) ==
    LET p1  == coin_data.prices_1m
        p15 == coin_data.prices_15m
        has1  == Len(p1) >= 12
        has15 == Len(p15) >= 4
        mom_1m  == IF has1
                   THEN RatSub(RatDiv(Rat(100 * FromEnd(p1, 1)), Rat(FromEnd(p1, 12))), Rat(100))
                   ELSE Rat(0)
        mom_15m == IF has15
                   THEN RatSub(RatDiv(Rat(100 * FromEnd(p15, 1)), Rat(FromEnd(p15, 4))), Rat(100))
                   ELSE Rat(0)
    IN  << Rule(has1 /\ RatLt(<<7, 2>>, mom_1m), -25, "1m Pump Risk"),
           Rule(has1 /\ RatLt(mom_1m, <<-7, 2>>), 20, "1m Bounce Likely"),
           Rule(has15 /\ RatLt(Rat(5), mom_15m), -20, "15m Overextended"),
           Rule(has15 /\ RatLt(mom_15m, Rat(-5)), 15, "15m Oversold") >>

\* lines 133-142: volume analysis
VolumeRules(coin_data) ==
    LET v   == coin_data.volumes_1m
        p1  == coin_data.prices_1m
        has == Len(v) >= 10
        avg_volume == IF has THEN Mean(SubSeq(v, Len(v) - 9, Len(v) - 1)) ELSE Rat(0)
        current_volume == IF has THEN FromEnd(v, 1) ELSE 0
        volume_change == IF avg_volume[1] > 0
                         THEN RatDiv(RatSub(Rat(current_volume), avg_volume), avg_volume)
                         ELSE Rat(0)
        price_change_short == IF Len(p1) >= 5
                              THEN <<FromEnd(p1, 1) - FromEnd(p1, 5), FromEnd(p1, 5)>>
                              ELSE Rat(0)
        surge == has /\ RatLt(<<1, 5>>, volume_change)
        up == surge /\ price_change_short[1] > 0
    IN  << Rule(up, 15, "Rising Volume + Price"),
           \* the elif of line 141
           Rule(~up /\ surge /\ price_change_short[1] < 0, -15, "Rising Volume + Dump") >>

\* lines 144-146: the rules on the reading predict_signal fetches itself
FearGreedRules(fgv) ==
    << Rule(fgv < 20, 30, "Market Extreme Fear"),
       Rule(fgv > 90, -25, "Market Extreme Greed") >>

RECURSIVE ScoreOf(_)
ScoreOf(rules) ==
    IF rules = <<>> THEN 0
    ELSE (IF Head(rules).on THEN Head(rules).pts ELSE 0) + ScoreOf(Tail(rules))

RECURSIVE ReasonsOf(_)
ReasonsOf(rules) ==
    IF rules = <<>> THEN <<>>
    ELSE (IF Head(rules).on THEN <<Head(rules).why>> ELSE <<>>) \o ReasonsOf(Tail(rules))

\* fgv is what get_fear_greed() returns at line 144
predict_signal(coin_data, fgv, golden, bull) ==
    IF Bootstrapping(coin_data) THEN Bootstrap
    ELSE LET rules == RsiRules(coin_data) \o EmaRules(coin_data, golden, bull)
                      \o MomentumRules(coin_data) \o VolumeRules(coin_data)
                      \o FearGreedRules(fgv)
         IN  Classify(ScoreOf(rules), ReasonsOf(rules))

--------------------------------------------------------------------------
(* The remote calls (app.py:40-66).                                         *)

\* d[k] = v on a dict
Put(d, k, v) == [x \in (DOMAIN d) \cup {k} |-> IF x = k THEN v ELSE d[x]]

\* d.get(k, dflt)
Get(d, k, dflt) == IF k \in DOMAIN d THEN d[k] ELSE dflt

EmptyDict == <<>>

\* get_prices: out.ok is whether the request and its parsing succeeded,
\* out.items the tracked coins of the answer, each with the three fields
\* the code reads; a null current_price is None (line 54)
get_prices(out) ==
    IF out.ok
    THEN [prices  |-> [c \in DOMAIN out.items |-> out.items[c].current_price],
          changes |-> [c \in DOMAIN out.items |-> out.items[c].change],
          volumes |-> [c \in DOMAIN out.items |-> out.items[c].total_volume]]
    ELSE [prices |-> EmptyDict, changes |-> EmptyDict, volumes |-> EmptyDict]

\* get_fear_greed: the index value, or 50 when anything fails
get_fear_greed(out) == IF out.ok THEN out.value ELSE FgDefault

\* the answers of the fear/greed source the model draws from: a failure
\* (read as 50), extreme fear, extreme greed
FgOutcomes ==
    {[ok |-> FALSE, value |-> 0]} \cup {[ok |-> TRUE, value |-> v] : v \in {10, 95}}

Item(p, v) == [current_price |-> p, change |-> 0, total_volume |-> v]

\* the answers of the price API drawn when the whole loop is explored: a
\* failure, or any subset of the coins, each with a null or a positive price
PriceOutcomes ==
    {[ok |-> FALSE, items |-> EmptyDict]} \cup
    {[ok |-> TRUE, items |-> f] :
        f \in UNION {[S -> {Item(None, 10), Item(7, 10)}] : S \in SUBSET CoinSet}}

--------------------------------------------------------------------------
(* update_data (app.py:160-240).                                            *)

\* mutant of Pop0: the newest entry is dropped
PopNewest(s) == SubSeq(s, 1, Len(s) - 1)

\* list.pop(0)
Pop0(s) == Tail(s)

\* lines 173-179: the 1m sample
Sample1m(coin_data, price, volume) ==
    LET a == [coin_data EXCEPT !.prices_1m = Append(@, price),
                               !.times_1m = Append(@, IsoNow),
                               !.volumes_1m = Append(@, volume)]
    IN  IF Len(a.prices_1m) > Cap1m
        THEN [a EXCEPT !.prices_1m = Pop0(@), !.times_1m = Pop0(@),
                       !.volumes_1m = Pop0(@)]
        ELSE a

\* one resampled history: append, then drop the head when over the cap
Push(coin_data, pf, tf, price, cap) ==
    LET a == [coin_data EXCEPT ![pf] = Append(@, price), ![tf] = Append(@, IsoNow)]
    IN  IF Len(a[pf]) > cap
        THEN [a EXCEPT ![pf] = Pop0(@), ![tf] = Pop0(@)]
        ELSE a

\* lines 182, 188, 194: whether the resampled history of modulus m is due
Due(coin_data, m) == Len(coin_data.prices_1m) % m = 0

\* lines 181-199
Resample(coin_data, price) ==
    LET a == IF Due(coin_data, Every5m)
             THEN Push(coin_data, "prices_5m", "times_5m", price, Cap5m) ELSE coin_data
        b == IF Due(a, Every15m)
             THEN Push(a, "prices_15m", "times_15m", price, Cap15m) ELSE a
    IN  IF Due(b, Every1h)
        THEN Push(b, "prices_1h", "times_1h", price, Cap1h) ELSE b

\* lines 173-199
SampleBlock(coin_data, price, volume) == Resample(Sample1m(coin_data, price, volume), price)

\* history: the price histories lines 173-199 append to
AppendsOf(coin_data, price, volume) ==
    LET a == Sample1m(coin_data, price, volume)
    IN  {"prices_1m"} \cup (IF Due(a, Every5m) THEN {"prices_5m"} ELSE {})
                      \cup (IF Due(a, Every15m) THEN {"prices_15m"} ELSE {})
                      \cup (IF Due(a, Every1h) THEN {"prices_1h"} ELSE {})

\* lines 203-211; ', '.join(reasons[:2]) is kept as the list it joins
Entry(coin, price, change, sig) ==
    [coin |-> coin, price |-> price, change |-> change, signal |-> sig.msg,
     prob |-> sig.prob, color_class |-> sig.color_class,
     reasons |-> SubSeq(sig.reasons, 1, Min(2, Len(sig.reasons)))]

\* line 221: the title's replacement field is {price:<spec>} with the format
\* spec ",.0f if price else 'N/A'", which format() rejects for every price
\* (ValueError: Invalid format specifier); nothing in update_data catches it
ChartTitleRaises(price) == TRUE

\* the state when the module has been imported (lines 33-38, 243)
InitProgram ==
    /\ data = [c \in CoinSet |-> CoinData0]
    /\ latest_data = EmptyDict
    /\ pc = "poll"
    /\ idx = 1
    /\ prices = EmptyDict
    /\ changes = EmptyDict
    /\ volumes = EmptyDict
    /\ fg = FgDefault
    /\ dashboard = <<>>
    /\ charts = EmptyDict
    /\ response = EmptyDict
    /\ iter = 0
    /\ wrote = EmptyDict
    /\ rwrote = EmptyDict
    /\ appended = [c \in CoinSet |-> [h \in Hist |-> <<>>]]
    /\ data0 = [c \in CoinSet |-> CoinData0]
    /\ fgUsed = {}
    /\ fgReply = [ok |-> FALSE, value |-> 0]

\* the result of a function not applied yet
Pending == <<0, 0>>

Init ==
    /\ InitProgram
    /\ score_in = 0
    /\ signal_out = Bootstrap
    /\ rsi_prices = <<>>
    /\ rsi_period = 1
    /\ rsi_out = Pending

\* lines 162-165, with the answers of the two remote calls
Begin(pout, fout) ==
    /\ pc = "poll"
    /\ prices' = get_prices(pout).prices
    /\ changes' = get_prices(pout).changes
    /\ volumes' = get_prices(pout).volumes
    /\ fg' = get_fear_greed(fout)
    /\ dashboard' = <<>>
    /\ charts' = EmptyDict
    /\ idx' = 1
    /\ pc' = "loop"
    /\ data0' = data
    /\ fgUsed' = {}
    /\ fgReply' = fout
    /\ UNCHANGED <<data, latest_data, response, wrote, rwrote, appended, pureVars>>

\* one iteration begins; the loop is explored for MaxIter iterations
Poll ==
    /\ iter < MaxIter
    /\ iter' = iter + 1
    /\ \E pout \in PriceOutcomes, fout \in FgOutcomes : Begin(pout, fout)

\* lines 166-169: a coin without a price is skipped
SkipCoin ==
    /\ pc = "loop"
    /\ idx <= Len(COINS)
    /\ Get(prices, COINS[idx], None) = None
    /\ idx' = idx + 1
    /\ UNCHANGED <<data, latest_data, pc, prices, changes, volumes, fg, dashboard,
                   charts, response, iter, wrote, rwrote, appended, data0, fgUsed,
                   fgReply, pureVars>>

\* lines 171-211 for one priced coin, on st = the histories, the dashboard
\* being built and the history variables: the sample, the signal, the
\* dashboard entry.  in = <<fout, golden, bull>> is what predict_signal gets
\* from its own fear/greed request (line 144) and from the two EMA
\* comparisons; none is consulted while the coin is bootstrapping (line 95
\* returns first).
CoinStepOn(st, coin, price, volume, change, in, cd) ==
    LET hits == AppendsOf(st.data[coin], price, volume)
        fgv  == get_fear_greed(in[1])
        sig  == predict_signal(cd, fgv, in[2], in[3])
    IN  [data      |-> [st.data EXCEPT ![coin] = cd],
         appended  |-> [st.appended EXCEPT ![coin] =
                          [h \in Hist |-> IF h \in hits THEN Append(@[h], price) ELSE @[h]]],
         fgUsed    |-> IF Bootstrapping(cd) THEN st.fgUsed ELSE st.fgUsed \cup {fgv},
         dashboard |-> Append(st.dashboard, Entry(coin, price, change, sig))]

CoinStep(st, coin, price, volume, change, in) ==
    CoinStepOn(st, coin, price, volume, change, in,
               SampleBlock(st.data[coin], price, volume))

\* the inputs of predict_signal for a coin about to be sampled, the EMA
\* comparisons drawn from emas: a single draw while the coin bootstraps,
\* when none is consulted
SignalInputs(coin_data, emas) ==
    IF Len(coin_data.prices_1m) + 1 < BootstrapLen
    THEN {<<CHOOSE o \in FgOutcomes : ~o.ok, TRUE, TRUE>>}
    ELSE {<<o, e[1], e[2]>> : o \in FgOutcomes, e \in emas}

\* lines 171-228 for the coin at idx: the sample and the signal, then the
\* chart, whose title raises and ends the thread
SampleCoin ==
    /\ pc = "loop"
    /\ idx <= Len(COINS)
    /\ Get(prices, COINS[idx], None) # None
    /\ \E in \in SignalInputs(data[COINS[idx]], BOOLEAN \X BOOLEAN) :
         LET coin == COINS[idx]
             st   == CoinStep([data |-> data, appended |-> appended, fgUsed |-> fgUsed,
                               dashboard |-> dashboard],
                              coin, prices[coin], Get(volumes, coin, 0), changes[coin], in)
         IN  /\ data' = st.data
             /\ appended' = st.appended
             /\ fgUsed' = st.fgUsed
             /\ dashboard' = st.dashboard
    /\ IF ChartTitleRaises(prices[COINS[idx]])
       THEN /\ pc' = "dead"
            /\ UNCHANGED <<idx, charts>>
       ELSE /\ charts' = Put(charts, COINS[idx], "png")
            /\ idx' = idx + 1
            /\ pc' = pc
    /\ UNCHANGED <<latest_data, prices, changes, volumes, fg, response, iter, wrote,
                   rwrote, data0, fgReply, pureVars>>

\* line 230, reached when the for loop is exhausted
WriteDashboard ==
    /\ pc = "loop"
    /\ idx > Len(COINS)
    /\ latest_data' = Put(latest_data, "dashboard", dashboard)
    /\ wrote' = Put(wrote, "dashboard", iter)
    /\ pc' = "w_fg"
    /\ UNCHANGED <<data, idx, prices, changes, volumes, fg, dashboard, charts,
                   response, iter, rwrote, appended, data0, fgUsed, fgReply, pureVars>>

\* line 231
WriteFg ==
    /\ pc = "w_fg"
    /\ latest_data' = Put(latest_data, "fg", fg)
    /\ wrote' = Put(wrote, "fg", iter)
    /\ pc' = "w_charts"
    /\ UNCHANGED <<data, idx, prices, changes, volumes, fg, dashboard, charts,
                   response, iter, rwrote, appended, data0, fgUsed, fgReply, pureVars>>

\* line 232
WriteCharts ==
    /\ pc = "w_charts"
    /\ latest_data' = Put(latest_data, "charts", charts)
    /\ wrote' = Put(wrote, "charts", iter)
    /\ pc' = "w_timestamp"
    /\ UNCHANGED <<data, idx, prices, changes, volumes, fg, dashboard, charts,
                   response, iter, rwrote, appended, data0, fgUsed, fgReply, pureVars>>

\* lines 233-240: the timestamp, then the log line (which only reads
\* latest_data) and the sleep
WriteTimestamp ==
    /\ pc = "w_timestamp"
    /\ latest_data' = Put(latest_data, "timestamp", IsoNow)
    /\ wrote' = Put(wrote, "timestamp", iter)
    /\ pc' = "poll"
    /\ UNCHANGED <<data, idx, prices, changes, volumes, fg, dashboard, charts,
                   response, iter, rwrote, appended, data0, fgUsed, fgReply, pureVars>>

\* api_data (lines 249-251): jsonify(latest_data), taken in one step
api_data ==
    /\ response' = latest_data
    /\ rwrote' = wrote
    /\ UNCHANGED <<data, latest_data, pc, idx, prices, changes, volumes, fg,
                   dashboard, charts, iter, wrote, appended, data0, fgUsed, fgReply,
                   pureVars>>

Next ==
    \/ Poll
    \/ SkipCoin
    \/ SampleCoin
    \/ WriteDashboard
    \/ WriteFg
    \/ WriteCharts
    \/ WriteTimestamp
    \/ api_data

\* the program: the update thread and the HTTP handler
Spec == Init /\ [][Next]_vars

--------------------------------------------------------------------------
(* The sampling pipeline on its own: lines 162-211 and 230-240 of           *)
(* update_data iterated without the chart rendering of lines 213-228, one   *)
(* iteration a step, fed one coin for MaxSamples samples.  It reaches the   *)
(* histories' caps, which the thread of Spec never lives to see.            *)

\* the coin the feed prices
FedCoin == COINS[1]

\* the k-th price and volume of the feed: prices all distinct, a volume
\* surge every tenth sample
FeedPrice(k) == k

FeedVolume(k) == IF k % 10 = 0 THEN 30 ELSE 20

\* the for loop of lines 166-211 from position i on, without the chart
RECURSIVE ForCoins(_, _, _, _)
ForCoins(i, st, got, ins) ==
    IF i > Len(COINS) THEN st
    ELSE LET coin  == COINS[i]
             price == Get(got.prices, coin, None)
         IN  IF price = None THEN ForCoins(i + 1, st, got, ins)
             ELSE ForCoins(i + 1,
                           CoinStep(st, coin, price, Get(got.volumes, coin, 0),
                                    got.changes[coin], ins[coin]),
                           got, ins)

\* the outcome of the two EMA comparisons at the k-th sample of the feed:
\* each holds and fails in turn
FeedEma(k) == <<k % 2 = 0, k % 3 = 0>>

\* the inputs of predict_signal for each priced coin of an answer
InputsFor(got) ==
    LET priced == {c \in CoinSet : Get(got.prices, c, None) # None}
    IN  {f \in [priced -> FgOutcomes \X BOOLEAN \X BOOLEAN] :
            \A c \in priced :
                f[c] \in SignalInputs(data[c], {FeedEma(Len(appended[c].prices_1m) + 1)})}

\* one whole iteration: lines 162-211, then 230-240
Iteration(pout, fout) ==
    /\ pc = "poll"
    /\ \E got \in {get_prices(pout)} : \E ins \in InputsFor(got) :
        \E st \in {ForCoins(1, [data |-> data, appended |-> appended, fgUsed |-> {},
                                 dashboard |-> <<>>], got, ins)} :
             /\ prices' = got.prices
             /\ changes' = got.changes
             /\ volumes' = got.volumes
             /\ fg' = get_fear_greed(fout)
             /\ data' = st.data
             /\ appended' = st.appended
             /\ fgUsed' = st.fgUsed
             /\ dashboard' = st.dashboard
             /\ latest_data' = [k \in {"dashboard", "fg", "charts", "timestamp"} |->
                                  CASE k = "dashboard" -> st.dashboard
                                    [] k = "fg" -> get_fear_greed(fout)
                                    [] k = "charts" -> EmptyDict
                                    [] k = "timestamp" -> IsoNow]
    /\ charts' = EmptyDict
    /\ idx' = Len(COINS) + 1
    /\ data0' = data
    /\ fgReply' = fout
    /\ UNCHANGED <<pc, response, iter, wrote, rwrote, pureVars>>

\* an iteration whose price request fails
FailedIteration ==
    \E fout \in FgOutcomes : Iteration([ok |-> FALSE, items |-> EmptyDict], fout)

\* an iteration that gets the next price of the feed
FedIteration ==
    /\ Len(appended[FedCoin].prices_1m) < MaxSamples
    /\ \E fout \in FgOutcomes :
         LET k == Len(appended[FedCoin].prices_1m) + 1
         IN  Iteration([ok |-> TRUE,
                        items |-> [c \in {FedCoin} |-> Item(FeedPrice(k), FeedVolume(k))]],
                       fout)

SamplingNext ==
    \/ FailedIteration
    \/ FedIteration

SamplingSpec == Init /\ [][SamplingNext]_vars

--------------------------------------------------------------------------
(* The classification of predict_signal (lines 148-158) on every score its  *)
(* rules can add up to.                                                     *)

\* the points of every rule of lines 103-146
RulePoints ==
    LET rules == RsiRules(CoinData0) \o EmaRules(CoinData0, TRUE, TRUE)
                 \o MomentumRules(CoinData0) \o VolumeRules(CoinData0)
                 \o FearGreedRules(FgDefault)
    IN  [i \in DOMAIN rules |-> rules[i].pts]

\* from every penalty to every bonus at once
ScoreRange ==
    (0 - SumSeq(Positive([i \in DOMAIN RulePoints |-> 0 - RulePoints[i]])))
        .. SumSeq(Positive(RulePoints))

ClassifyInit ==
    /\ InitProgram
    /\ score_in \in ScoreRange
    /\ signal_out = Bootstrap
    /\ rsi_prices = <<>>
    /\ rsi_period = 1
    /\ rsi_out = Pending

ApplyClassify ==
    /\ signal_out = Bootstrap
    /\ signal_out' = Classify(score_in, <<>>)
    /\ UNCHANGED <<progVars, score_in, rsi_prices, rsi_period, rsi_out>>

ClassifySpec == ClassifyInit /\ [][ApplyClassify]_vars

--------------------------------------------------------------------------
(* rsi on every price list of up to MaxLen prices in 1..MaxPrice and every  *)
(* period in 1..MaxPeriod.                                                  *)

PriceLists == UNION {[1..n -> 1..MaxPrice] : n \in 0..MaxLen}

RsiInit ==
    /\ InitProgram
    /\ score_in = 0
    /\ signal_out = Bootstrap
    /\ rsi_prices \in PriceLists
    /\ rsi_period \in 1..MaxPeriod
    /\ rsi_out = Pending

ApplyRsi ==
    /\ rsi_out = Pending
    /\ rsi_out' = rsi(rsi_prices, rsi_period)
    /\ UNCHANGED <<progVars, score_in, signal_out, rsi_prices, rsi_period>>

RsiSpec == RsiInit /\ [][ApplyRsi]_vars

--------------------------------------------------------------------------
(* The claims.                                                              *)

CapOf(h) ==
    CASE h = "prices_1m" -> Cap1m
      [] h = "prices_5m" -> Cap5m
      [] h = "prices_15m" -> Cap15m
      [] h = "prices_1h" -> Cap1h

\* the number of samples a coin has got so far
Samples(c) == Len(appended[c].prices_1m)

\* C1: at the end of every iteration each price history of each coin is
\* exactly the most recent min(n, cap) values ever appended to it, in
\* arrival order; so none is longer than its cap and what overflow drops
\* is the oldest value.
RollingWindow ==
    \A c \in CoinSet : \A h \in Hist :
        /\ data[c][h] = LastN(appended[c][h], CapOf(h))
        /\ Len(data[c][h]) <= CapOf(h)

\* C1 witness: the 1m and the 5m history of the fed coin have both overflowed
RollingWindowOverflowed ==
    /\ Len(appended[FedCoin].prices_1m) > Cap1m
    /\ Len(appended[FedCoin].prices_5m) > Cap5m
    /\ data[FedCoin].prices_1m[1] # appended[FedCoin].prices_1m[1]

LoopNeverStops == pc # "dead"

\* the for loop of the running iteration is over, or the thread has ended
LoopOver == iter > 0 /\ pc # "loop"

EntriesOf(c) == {i \in DOMAIN dashboard : dashboard[i].coin = c}

\* C4: in every iteration, a coin without a price keeps all its histories
\* and gets no dashboard entry; a coin with a price gets exactly one new 1m
\* sample and exactly one dashboard entry; a failed fear/greed request
\* reads as 50.
DegradesToDefaults ==
    LoopOver =>
        /\ \A c \in CoinSet :
              IF Get(prices, c, None) = None
              THEN data[c] = data0[c] /\ EntriesOf(c) = {}
              ELSE /\ data[c] = SampleBlock(data0[c], prices[c], Get(volumes, c, 0))
                   /\ Cardinality(EntriesOf(c)) = 1
        /\ (~fgReply.ok => fg = FgDefault)

\* C5: every /api/data response is the initial empty object or holds all
\* four keys, all written by one iteration of update_data.
SnapshotOfOneIteration ==
    \/ response = EmptyDict
    \/ /\ DOMAIN response = {"dashboard", "fg", "charts", "timestamp"}
       /\ \A j, k \in DOMAIN rwrote : rwrote[j] = rwrote[k]

\* C6: the signal of a sampled coin is the bootstrap result exactly while
\* the coin has got fewer than 60 samples, and a 1m history that has
\* reached 60 entries never holds fewer again.
BootstrapOnlyAtFirst ==
    /\ \A i \in DOMAIN dashboard :
          LET e == dashboard[i]
          IN  /\ (e.signal = Bootstrap.msg) <=> (Samples(e.coin) < BootstrapLen)
              /\ e.signal = Bootstrap.msg =>
                    /\ e.prob = Bootstrap.prob
                    /\ e.color_class = Bootstrap.color_class
                    /\ e.reasons = Bootstrap.reasons
    /\ \A c \in CoinSet :
          /\ Samples(c) < BootstrapLen => Len(data[c].prices_1m) = Samples(c)
          /\ Samples(c) >= BootstrapLen => Len(data[c].prices_1m) >= BootstrapLen

\* C6 witness: a coin whose 1m history has overflowed gets a scored signal
ScoredAfterOverflow ==
    /\ Samples(FedCoin) > Cap1m
    /\ dashboard # <<>>
    /\ dashboard[1].coin = FedCoin
    /\ dashboard[1].signal # Bootstrap.msg

\* C7: label and probability are determined by the score alone: STRONG BUY
\* iff score >= 65, Bullish iff 35 <= score < 65, STRONG SELL iff
\* score <= -65, Bearish iff -65 < score <= -35, Neutral otherwise; the
\* probability is min(99, |score|) for the four and 25 for Neutral, so it
\* is in 0..99 and at least 35 when not Neutral.
SignalFromScore ==
    signal_out # Bootstrap =>
        LET s == score_in
            m == signal_out.msg
            p == signal_out.prob
        IN  /\ (m = "STRONG BUY") <=> (s >= 65)
            /\ (m = "Bullish") <=> (35 <= s /\ s < 65)
            /\ (m = "STRONG SELL") <=> (s <= -65)
            /\ (m = "Bearish") <=> (-65 < s /\ s <= -35)
            /\ (m = "Neutral") <=> (-35 < s /\ s < 35)
            /\ m # "Neutral" => p = Min(99, Abs(s)) /\ p >= 35
            /\ m = "Neutral" => p = 25
            /\ p \in 0..99

\* C7 witness: a score beyond 99 is classified, with the capped probability
CappedStrongBuy ==
    /\ score_in > 99
    /\ signal_out.msg = "STRONG BUY"
    /\ signal_out.prob = 99

\* none of the last `period` price changes is a decrease
NoDecrease(ps, period) ==
    \A i \in 1..(Len(ps) - 1) : i > Len(ps) - 1 - period => ps[i + 1] >= ps[i]

\* C8: rsi returns 100 when the list has at least period+1 prices and none
\* of the last `period` changes is a decrease, also when they are all zero;
\* it returns 50 when the list has fewer than period+1 prices.
RsiMaximalWithoutLosses ==
    rsi_out # Pending =>
        /\ (Len(rsi_prices) >= rsi_period + 1 /\ NoDecrease(rsi_prices, rsi_period))
              => RatEq(rsi_out, Rat(100))
        /\ Len(rsi_prices) < rsi_period + 1 => RatEq(rsi_out, Rat(50))

==========================================================================
